---- MODULE Spec2Model ----
(***************************************************************************)
(* Model of cmd/boulder-publisher/main.go: the startup of the publisher    *)
(* (configuration, CT bundle resolution, construction of the publisher)    *)
(* and the lifecycle of its gRPC server (serve, signal, graceful stop).    *)
(***************************************************************************)
EXTENDS Integers, Sequences, FiniteSets, TLC

(* ------------------------------ bounds -------------------------------- *)
\* size of the largest Chains value of a configuration: the number of its
\* chains plus the number of file names in them
MaxConfigSize == 5
\* number of requests the server accepts in one run
MaxReq == 2

(* ------------------------- certificate files -------------------------- *)
\* Files on disk: A1 and A2 hold two different certificates of the same
\* issuing key pair (same NameID), B1 one of another issuer, "bad" does not
\* load.
Files == {"A1", "A2", "B1", "bad"}

Readable(f) == f # "bad"

\* The certificate a file holds: its subject (what NameID hashes) and its
\* raw DER bytes.
CertOf(f) ==
  CASE f = "A1" -> [subject |-> "A", raw |-> "derA1"]
    [] f = "A2" -> [subject |-> "A", raw |-> "derA2"]
    [] f = "B1" -> [subject |-> "B", raw |-> "derB1"]
    [] OTHER    -> [subject |-> "?", raw |-> "?"]

\* an identity taken from the whole certificate
NameIDOfRaw(cert) == cert.raw

\* issuer.NameID(): a function of the certificate's subject only.
NameID(cert) == cert.subject

\* ct.ASN1Cert{Data: cert.Raw}
ASN1Cert(cert) == cert.raw

\* issuance.LoadChain(files): every file must load, an empty chain is an
\* error; the issuer is the first certificate and the bundle holds the
\* certificates after it, in file order.
LoadChain(files) ==
  IF Len(files) = 0 \/ \E i \in 1..Len(files) : ~Readable(files[i])
  THEN [err |-> "load", issuer |-> CertOf("bad"), bundle |-> <<>>]
  ELSE [err |-> "nil", issuer |-> CertOf(files[1]),
        bundle |-> [i \in 1..(Len(files) - 1) |-> ASN1Cert(CertOf(files[i + 1]))]]

\* Legacy PEM bundle files: L1 holds the certificates of B1 and A1 in that
\* order, "Lbad" does not load, "" is no file at all.
LegacyFiles == {"", "L1", "Lbad"}

PemContent(name) == IF name = "L1" THEN <<"B1", "A1">> ELSE <<>>

\* core.LoadCertBundle(filename)
LoadCertBundle(name) ==
  IF name = "L1"
  THEN [err |-> "nil", certs |-> [i \in 1..Len(PemContent(name)) |-> CertOf(PemContent(name)[i])]]
  ELSE [err |-> "load", certs |-> <<>>]

(* --------------------------- configurations --------------------------- *)
RECURSIVE SeqsUpTo(_, _)
\* all sequences over S of length at most n
SeqsUpTo(S, n) ==
  IF n = 0 THEN {<<>>}
  ELSE LET shorter == SeqsUpTo(S, n - 1)
       IN  shorter \cup {Append(s, x) : s \in shorter, x \in S}

RECURSIVE ChainListsOfSize(_)
\* all lists of chains (lists of file names) of size at most n, where every
\* chain counts for one plus the number of its file names
ChainListsOfSize(n) ==
  IF n = 0 THEN {<<>>}
  ELSE {<<>>} \cup
       UNION {{<<d>> \o rest : rest \in ChainListsOfSize(n - Len(d) - 1)} :
                d \in SeqsUpTo(Files, n - 1)}

\* A [][]string as the JSON decoder leaves it: nil when the key is missing
\* or null, a (possibly empty) list otherwise.
ChainLists ==
  {[nil |-> TRUE, v |-> <<>>]} \cup
  {[nil |-> FALSE, v |-> l] : l \in ChainListsOfSize(MaxConfigSize)}

\* The fields of config that main reads.
Configs == [Chains : ChainLists, IntermediateBundleFilename : LegacyFiles]

\* var c config
ZeroConfig == [Chains |-> [nil |-> TRUE, v |-> <<>>], IntermediateBundleFilename |-> ""]

(* ------------------- map[issuance.IssuerNameID][]ct.ASN1Cert ---------- *)
\* A map is the set of its <<key, value>> entries.
Keys(m) == {p[1] : p \in m}

Get(m, id) == (CHOOSE p \in m : p[1] = id)[2]

\* m[id] = b with two entries kept for one key
MapPutKeepBoth(m, id, b) == m \cup {<<id, b>>}

\* m[id] = b
MapPut(m, id, b) == {p \in m : p[1] # id} \cup {<<id, b>>}

(* ------------------------------- state -------------------------------- *)
VARIABLES
  pc,           \* where main is
  c,            \* the config structure
  exitCode,     \* -1 while the process runs, else its exit status
  exitMsg,      \* what the process reported when it exited
  debugSrv,     \* the debug server of StatsAndLogging: "none" or "started"
  idx,          \* position of the loop over c.Publisher.Chains
  bundle,       \* the legacy bundle
  bundles,      \* the per-issuer bundles
  legacyLoaded, \* whether LoadCertBundle has been called
  pubi,         \* the publisher implementation built by publisher.New
  srv,          \* grpcSrv: "none", "new", "serving", "stopping", "stopped", "failed"
  lis,          \* the listener l: "none", "open", "closed"
  registered,   \* the services registered on grpcSrv
  hs,           \* the health server's status: "none", "SERVING", "NOT_SERVING"
  sig,          \* the CatchSignals goroutine: "none", "waiting", "callback", "stopWait", "done"
  cb,           \* the next call of the shutdown callback
  pre,          \* requests in flight that were accepted before the signal
  post,         \* requests in flight that were accepted after the signal
  accepted,     \* requests accepted so far
  serveErr      \* what grpcSrv.Serve returned, "none" until it returns

vars == <<pc, c, exitCode, exitMsg, debugSrv, idx, bundle, bundles,
          legacyLoaded, pubi, srv, lis, registered, hs, sig, cb, pre, post, accepted,
          serveErr>>

resolveVars == <<idx, bundle, bundles, legacyLoaded>>
serverVars == <<srv, lis, registered, hs>>
signalVars == <<sig, cb>>
requestVars == <<pre, post, accepted>>

Running == exitCode = -1

NoPublisher == [built |-> FALSE, bundle |-> <<>>, bundles |-> {}]

Init ==
  /\ pc = "flags"
  /\ c = ZeroConfig
  /\ exitCode = -1
  /\ exitMsg = ""
  /\ debugSrv = "none"
  /\ idx = 1
  /\ bundle = <<>>
  /\ bundles = {}
  /\ legacyLoaded = FALSE
  /\ pubi = NoPublisher
  /\ srv = "none"
  /\ lis = "none"
  /\ registered = {}
  /\ hs = "none"
  /\ sig = "none"
  /\ cb = 1
  /\ pre = 0
  /\ post = 0
  /\ accepted = 0
  /\ serveErr = "none"

(* ------------------------------- exits -------------------------------- *)
\* os.Exit(code) after reporting msg
Exit(code, msg) ==
  /\ pc' = "exited"
  /\ exitCode' = code
  /\ exitMsg' = msg

\* cmd.FailOnError with a non-nil error
Fail(msg) == Exit(1, msg)

(* ---------------------------- main: startup --------------------------- *)
\* flag.Parse and the check of -config
MainFlags ==
  /\ Running /\ pc = "flags"
  /\ \E configFile \in {"", "publisher.json"} :
       IF configFile = ""
       THEN Exit(1, "usage")
       ELSE pc' = "readConfig" /\ UNCHANGED <<exitCode, exitMsg>>
  /\ UNCHANGED <<c, debugSrv, resolveVars, pubi, serverVars, signalVars, requestVars>>
  /\ UNCHANGED serveErr

\* cmd.ReadConfigFile and features.Set
MainReadConfig ==
  /\ Running /\ pc = "readConfig"
  /\ \E outcome \in {"unreadable", "badFeatures", "ok"} :
       CASE outcome = "unreadable" ->
              Fail("Reading JSON config file into config structure") /\ UNCHANGED c
         [] outcome = "badFeatures" ->
              /\ \E cfg \in Configs : c' = cfg
              /\ Fail("Failed to set feature flags")
         [] OTHER ->
              /\ \E cfg \in Configs : c' = cfg
              /\ pc' = "stats"
              /\ UNCHANGED <<exitCode, exitMsg>>
  /\ UNCHANGED <<debugSrv, resolveVars, pubi, serverVars, signalVars, requestVars>>
  /\ UNCHANGED serveErr

\* cmd.StatsAndLogging(c.Syslog, c.Publisher.DebugAddr): the debug server
\* of the -debug-addr flag is started here.
StatsAndLogging == "started"

MainStats ==
  /\ Running /\ pc = "stats"
  /\ debugSrv' = StatsAndLogging
  /\ pc' = "check"
  /\ UNCHANGED <<c, exitCode, exitMsg, resolveVars, pubi, serverVars, signalVars, requestVars>>
  /\ UNCHANGED serveErr

\* c.Common.CT.IntermediateBundleFilename == "" && c.Publisher.Chains == nil
NoChainSource(cfg) == cfg.IntermediateBundleFilename = "" /\ cfg.Chains.nil

MainCheck ==
  /\ Running /\ pc = "check"
  /\ IF NoChainSource(c)
     THEN Exit(1, "No CT submission bundle or chains provided")
     ELSE pc' = "resolve" /\ UNCHANGED <<exitCode, exitMsg>>
  /\ UNCHANGED <<c, debugSrv, resolveVars, pubi, serverVars, signalVars, requestVars>>
  /\ UNCHANGED serveErr

(* ------------------------ main: bundle resolution --------------------- *)
\* the chains are used only when no legacy bundle is configured
UseChainsUnlessLegacy(cfg) == ~cfg.Chains.nil /\ cfg.IntermediateBundleFilename = ""

\* if c.Publisher.Chains != nil
UseChains(cfg) == ~cfg.Chains.nil

\* one iteration of the loop that skips a chain that fails to load
MainLoadChainSkipFailed ==
  /\ Running /\ pc = "resolve"
  /\ UseChains(c) /\ idx <= Len(c.Chains.v)
  /\ LET r == LoadChain(c.Chains.v[idx])
     IN  /\ bundles' = IF r.err # "nil" THEN bundles
                       ELSE MapPut(bundles, NameID(r.issuer), r.bundle)
         /\ idx' = idx + 1
         /\ UNCHANGED <<pc, exitCode, exitMsg>>
  /\ UNCHANGED <<c, debugSrv, bundle, legacyLoaded, pubi, serverVars, signalVars, requestVars>>
  /\ UNCHANGED serveErr

\* one iteration of: for _, files := range c.Publisher.Chains
MainLoadChain ==
  /\ Running /\ pc = "resolve"
  /\ UseChains(c) /\ idx <= Len(c.Chains.v)
  /\ LET r == LoadChain(c.Chains.v[idx])
     IN  IF r.err # "nil"
         THEN Fail("Failed to load chain") /\ UNCHANGED <<idx, bundles>>
         ELSE /\ bundles' = MapPut(bundles, NameID(r.issuer), r.bundle)
              /\ idx' = idx + 1
              /\ UNCHANGED <<pc, exitCode, exitMsg>>
  /\ UNCHANGED <<c, debugSrv, bundle, legacyLoaded, pubi, serverVars, signalVars, requestVars>>
  /\ UNCHANGED serveErr

\* after the loop the legacy bundle is loaded as well when one is configured
MainChainsDoneThenLegacy ==
  /\ Running /\ pc = "resolve"
  /\ UseChains(c) /\ idx > Len(c.Chains.v)
  /\ LET r == LoadCertBundle(c.IntermediateBundleFilename)
     IN  /\ bundle' = [i \in 1..Len(r.certs) |-> ASN1Cert(r.certs[i])]
         /\ legacyLoaded' = (c.IntermediateBundleFilename # "")
  /\ pc' = "tls"
  /\ UNCHANGED <<c, exitCode, exitMsg, debugSrv, idx, bundles, pubi, serverVars, signalVars, requestVars>>
  /\ UNCHANGED serveErr

\* the range loop is over
MainChainsDone ==
  /\ Running /\ pc = "resolve"
  /\ UseChains(c) /\ idx > Len(c.Chains.v)
  /\ pc' = "tls"
  /\ UNCHANGED <<c, exitCode, exitMsg, debugSrv, resolveVars, pubi, serverVars, signalVars, requestVars>>
  /\ UNCHANGED serveErr

\* the else branch with the error of LoadCertBundle dropped
MainLoadLegacyIgnoresError ==
  /\ Running /\ pc = "resolve"
  /\ ~UseChains(c)
  /\ legacyLoaded' = TRUE
  /\ LET r == LoadCertBundle(c.IntermediateBundleFilename)
     IN  bundle' = [i \in 1..Len(r.certs) |-> ASN1Cert(r.certs[i])]
  /\ pc' = "tls"
  /\ UNCHANGED <<exitCode, exitMsg>>
  /\ UNCHANGED <<c, debugSrv, idx, bundles, pubi, serverVars, signalVars, requestVars>>
  /\ UNCHANGED serveErr

\* the else branch: core.LoadCertBundle and the copy into bundle
MainLoadLegacy ==
  /\ Running /\ pc = "resolve"
  /\ ~UseChains(c)
  /\ legacyLoaded' = TRUE
  /\ LET r == LoadCertBundle(c.IntermediateBundleFilename)
     IN  IF r.err # "nil"
         THEN Fail("Failed to load CT submission bundle") /\ UNCHANGED bundle
         ELSE /\ bundle' = [i \in 1..Len(r.certs) |-> ASN1Cert(r.certs[i])]
              /\ pc' = "tls"
              /\ UNCHANGED <<exitCode, exitMsg>>
  /\ UNCHANGED <<c, debugSrv, idx, bundles, pubi, serverVars, signalVars, requestVars>>
  /\ UNCHANGED serveErr

(* ------------------------ main: server construction ------------------- *)
\* c.Publisher.TLS.Load()
MainTLS ==
  /\ Running /\ pc = "tls"
  /\ \E ok \in BOOLEAN :
       IF ok THEN pc' = "new" /\ UNCHANGED <<exitCode, exitMsg>>
             ELSE Fail("TLS config")
  /\ UNCHANGED <<c, debugSrv, resolveVars, pubi, serverVars, signalVars, requestVars>>
  /\ UNCHANGED serveErr

\* publisher.New(bundle, bundles, ...)
MainNewPublisher ==
  /\ Running /\ pc = "new"
  /\ pubi' = [built |-> TRUE, bundle |-> bundle, bundles |-> bundles]
  /\ pc' = "newServer"
  /\ UNCHANGED <<c, exitCode, exitMsg, debugSrv, resolveVars, serverVars, signalVars, requestVars>>
  /\ UNCHANGED serveErr

\* bgrpc.NewServer binds the listener
MainNewServer ==
  /\ Running /\ pc = "newServer"
  /\ \E ok \in BOOLEAN :
       IF ok
       THEN /\ srv' = "new" /\ lis' = "open" /\ pc' = "register"
            /\ UNCHANGED <<exitCode, exitMsg>>
       ELSE Fail("Unable to setup Publisher gRPC server") /\ UNCHANGED <<srv, lis>>
  /\ UNCHANGED <<c, debugSrv, resolveVars, pubi, registered, hs, signalVars, requestVars>>
  /\ UNCHANGED serveErr

\* the health server registered without a serving status
MainRegisterNotServing ==
  /\ Running /\ pc = "register"
  /\ registered' = {"Publisher", "Health"}
  /\ hs' = "NOT_SERVING"
  /\ pc' = "go"
  /\ UNCHANGED <<c, exitCode, exitMsg, debugSrv, resolveVars, pubi, srv, lis, signalVars, requestVars>>
  /\ UNCHANGED serveErr

\* RegisterPublisherServer, health.NewServer, RegisterHealthServer
MainRegister ==
  /\ Running /\ pc = "register"
  /\ registered' = {"Publisher", "Health"}
  /\ hs' = "SERVING"
  /\ pc' = "go"
  /\ UNCHANGED <<c, exitCode, exitMsg, debugSrv, resolveVars, pubi, srv, lis, signalVars, requestVars>>
  /\ UNCHANGED serveErr

\* go cmd.CatchSignals(logger, func() {...})
MainGoCatchSignals ==
  /\ Running /\ pc = "go"
  /\ sig' = "waiting"
  /\ pc' = "serve"
  /\ UNCHANGED <<c, exitCode, exitMsg, debugSrv, resolveVars, pubi, serverVars, cb, requestVars>>
  /\ UNCHANGED serveErr

(* ------------------------------ main: serve --------------------------- *)
\* cmd.FilterShutdownErrors
FilterShutdownErrors(err) ==
  IF err \in {"nil", "ErrServerStopped", "use of closed network connection"}
  THEN "nil" ELSE err

\* the result of Serve dropped: main returns whatever it was
FinishAlwaysClean(err) == Exit(0, "")

\* the result of Serve handed to FailOnError unfiltered
FinishNoFilter(err) ==
  IF err = "nil"
  THEN Exit(0, "")
  ELSE Fail("Publisher gRPC service failed")

\* cmd.FailOnError(err, "Publisher gRPC service failed") and the return of main
Finish(err) ==
  IF FilterShutdownErrors(err) = "nil"
  THEN Exit(0, "")
  ELSE Fail("Publisher gRPC service failed")

\* grpcSrv.Serve(l) is entered: it refuses a server that was already
\* stopped, else it starts to accept.
MainServe ==
  /\ Running /\ pc = "serve"
  /\ IF srv = "stopped"
     THEN /\ serveErr' = "ErrServerStopped"
          /\ Finish("ErrServerStopped") /\ lis' = "closed" /\ UNCHANGED srv
     ELSE /\ srv' = "serving" /\ pc' = "serving"
          /\ UNCHANGED <<exitCode, exitMsg, lis, serveErr>>
  /\ UNCHANGED <<c, debugSrv, resolveVars, pubi, registered, hs, signalVars, requestVars>>

\* Serve started by a go statement: main does not wait for it
ServeInBackground == srv \in {"serving", "stopping", "stopped"}

\* Serve blocks until the stop of the server is complete
ServeMayReturn == srv = "stopped"

\* what Serve returns once the server was stopped: nil, or the error of
\* its closed listener
StopResults == {"nil", "use of closed network connection"}

\* Serve returns after a stop
MainServeReturn ==
  /\ Running /\ pc = "serving"
  /\ ServeMayReturn
  /\ \E err \in StopResults : serveErr' = err /\ Finish(err)
  /\ lis' = "closed"
  /\ UNCHANGED <<c, debugSrv, resolveVars, pubi, srv, registered, hs, signalVars, requestVars>>

\* main stops the server itself when Serve fails
MainServeFailStopsServer ==
  /\ Running /\ pc = "serving"
  /\ srv = "serving"
  /\ srv' = "stopped"
  /\ lis' = "closed"
  /\ serveErr' = "accept failed"
  /\ Finish("accept failed")
  /\ UNCHANGED <<c, debugSrv, resolveVars, pubi, registered, hs, signalVars, requestVars>>

\* Serve returns the fatal error of its accept loop
MainServeFail ==
  /\ Running /\ pc = "serving"
  /\ srv = "serving"
  /\ srv' = "failed"
  /\ lis' = "closed"
  /\ serveErr' = "accept failed"
  /\ Finish("accept failed")
  /\ UNCHANGED <<c, debugSrv, resolveVars, pubi, registered, hs, signalVars, requestVars>>

(* ------------------------- the signal goroutine ----------------------- *)
\* cmd.CatchSignals receives a termination signal
SignalArrives ==
  /\ Running /\ sig = "waiting"
  /\ sig' = "callback"
  /\ UNCHANGED <<pc, c, exitCode, exitMsg, debugSrv, resolveVars, pubi, serverVars, cb, requestVars>>
  /\ UNCHANGED serveErr

\* the callback with its two calls exchanged
ShutdownCallbackSwapped == <<"GracefulStop", "Shutdown">>

\* the callback without its GracefulStop call
ShutdownCallbackHealthOnly == <<"Shutdown">>

\* func() { hs.Shutdown(); grpcSrv.GracefulStop() }
ShutdownCallback == <<"Shutdown", "GracefulStop">>

\* grpcSrv.Stop(): does not wait for requests
StopWaitsForNothing == TRUE

\* GracefulStop blocks until no request is in flight
GracefulStopMayFinish == pre + post = 0

\* the next call of the callback is made
CallbackStep ==
  /\ Running /\ sig = "callback" /\ cb <= Len(ShutdownCallback)
  /\ IF ShutdownCallback[cb] = "Shutdown"
     THEN /\ hs' = "NOT_SERVING"
          /\ cb' = cb + 1
          /\ UNCHANGED <<srv, sig>>
     ELSE IF srv = "serving"
          THEN /\ srv' = "stopping"
               /\ sig' = "stopWait"
               /\ UNCHANGED <<hs, cb>>
          ELSE /\ srv' = "stopped"
               /\ cb' = cb + 1
               /\ UNCHANGED <<hs, sig>>
  /\ UNCHANGED <<pc, c, exitCode, exitMsg, debugSrv, resolveVars, pubi, lis, registered, requestVars>>
  /\ UNCHANGED serveErr

\* GracefulStop returns
GracefulStopDone ==
  /\ Running /\ sig = "stopWait"
  /\ GracefulStopMayFinish
  /\ srv' = "stopped"
  /\ sig' = "callback"
  /\ cb' = cb + 1
  /\ UNCHANGED <<pc, c, exitCode, exitMsg, debugSrv, resolveVars, pubi, lis, registered, hs, requestVars>>
  /\ UNCHANGED serveErr

\* the callback returns to CatchSignals
CallbackReturn ==
  /\ Running /\ sig = "callback" /\ cb > Len(ShutdownCallback)
  /\ sig' = "done"
  /\ UNCHANGED <<pc, c, exitCode, exitMsg, debugSrv, resolveVars, pubi, serverVars, cb, requestVars>>
  /\ UNCHANGED serveErr

(* ------------------------------ requests ------------------------------ *)
\* a request handler that appends to the shared legacy bundle
AcceptAppendsToBundle ==
  /\ Running /\ srv = "serving" /\ accepted < MaxReq
  /\ accepted' = accepted + 1
  /\ IF sig = "waiting"
     THEN pre' = pre + 1 /\ UNCHANGED post
     ELSE post' = post + 1 /\ UNCHANGED pre
  /\ pubi' = [pubi EXCEPT !.bundle = Append(@, "derA1")]
  /\ UNCHANGED <<pc, c, exitCode, exitMsg, debugSrv, resolveVars, serverVars, signalVars>>
  /\ UNCHANGED serveErr

\* the server accepts a request
Accept ==
  /\ Running /\ srv = "serving" /\ accepted < MaxReq
  /\ accepted' = accepted + 1
  /\ IF sig = "waiting"
     THEN pre' = pre + 1 /\ UNCHANGED post
     ELSE post' = post + 1 /\ UNCHANGED pre
  /\ UNCHANGED <<pc, c, exitCode, exitMsg, debugSrv, resolveVars, pubi, serverVars, signalVars>>
  /\ UNCHANGED serveErr

\* a request in flight completes
Complete ==
  /\ Running /\ pre + post > 0
  /\ \E which \in {"pre", "post"} :
       IF which = "pre"
       THEN pre > 0 /\ pre' = pre - 1 /\ UNCHANGED post
       ELSE post > 0 /\ post' = post - 1 /\ UNCHANGED pre
  /\ UNCHANGED <<pc, c, exitCode, exitMsg, debugSrv, resolveVars, pubi, serverVars, signalVars, accepted>>
  /\ UNCHANGED serveErr

(* --------------------------- specification ---------------------------- *)
Next ==
  \/ MainFlags
  \/ MainReadConfig
  \/ MainStats
  \/ MainCheck
  \/ MainLoadChain
  \/ MainChainsDone
  \/ MainLoadLegacy
  \/ MainTLS
  \/ MainNewPublisher
  \/ MainNewServer
  \/ MainRegister
  \/ MainGoCatchSignals
  \/ MainServe
  \/ MainServeReturn
  \/ MainServeFail
  \/ SignalArrives
  \/ CallbackStep
  \/ GracefulStopDone
  \/ CallbackReturn
  \/ Accept
  \/ Complete

Spec == Init /\ [][Next]_vars

\* The goroutines of a running process are scheduled: main goes on when
\* Serve can be entered or can return, the signal goroutine goes on with the
\* callback, and a request in flight completes.  Signals, new requests and
\* failures of Serve are left to the environment.
Fairness ==
  /\ WF_vars(MainServe)
  /\ WF_vars(MainServeReturn)
  /\ WF_vars(CallbackStep)
  /\ WF_vars(GracefulStopDone)
  /\ WF_vars(CallbackReturn)
  /\ WF_vars(Complete)

SpecFair == Init /\ [][Next]_vars /\ Fairness

(* ------------------------- notions of the claims ---------------------- *)
NoSourceMsg == "No CT submission bundle or chains provided"

\* the chain list is absent or has no definition
ChainsAbsentOrEmpty == c.Chains.nil \/ Len(c.Chains.v) = 0

\* every chain definition of the configuration loads
AllLoad == \A i \in 1..Len(c.Chains.v) : LoadChain(c.Chains.v[i]).err = "nil"

\* the issuer identity of the i-th chain definition: that of its first file
IssuerAt(i) == NameID(CertOf(c.Chains.v[i][1]))

\* the bundle of the i-th chain definition: the certificates after the first
BundleAt(i) == [k \in 1..(Len(c.Chains.v[i]) - 1) |-> ASN1Cert(CertOf(c.Chains.v[i][k + 1]))]

Issuers == {IssuerAt(i) : i \in 1..Len(c.Chains.v)}

\* the first chain definition of an issuer, in configuration order
FirstOf(id) ==
  CHOOSE i \in 1..Len(c.Chains.v) :
    /\ IssuerAt(i) = id
    /\ \A j \in 1..(i - 1) : IssuerAt(j) # id

\* the termination signal has been received
Signalled == sig \in {"callback", "stopWait", "done"}

\* main has got past bgrpc.NewServer
StartupFailures ==
  {"usage", "Reading JSON config file into config structure",
   "Failed to set feature flags", NoSourceMsg, "Failed to load chain",
   "Failed to load CT submission bundle", "TLS config",
   "Unable to setup Publisher gRPC server"}

(* -------------------------------- C1 ---------------------------------- *)
\* C1: when several chain definitions have the same issuer, the bundle the
\* mapping holds for that issuer after resolution is the one of the first of
\* them in configuration order.
C1_FirstWins ==
  (pubi.built /\ UseChains(c)) =>
    \A id \in Keys(pubi.bundles) : Get(pubi.bundles, id) = BundleAt(FirstOf(id))

(* -------------------------------- C2 ---------------------------------- *)
\* C2: in no state has the graceful stop of the server begun while the
\* health server still reports SERVING.
C2_HealthDownBeforeStop ==
  srv \in {"stopping", "stopped"} => hs = "NOT_SERVING"

C2_Witness == srv = "stopping" /\ hs = "NOT_SERVING" /\ pre + post > 0

(* -------------------------------- C3 ---------------------------------- *)
\* C3: when the error about the missing chain source is reported, no
\* listener or endpoint, the debug endpoint included, has been created.
C3_NothingAcquiredBeforeConfigError ==
  exitMsg = NoSourceMsg => (debugSrv = "none" /\ lis = "none" /\ srv = "none")

(* -------------------------------- C4 ---------------------------------- *)
\* C4: with an absent or empty chain list and a legacy bundle file that
\* loads, the publisher gets the certificates of that file in file order as
\* its legacy bundle, and an empty mapping.
C4_LegacyFallback ==
  (pubi.built /\ ChainsAbsentOrEmpty
     /\ LoadCertBundle(c.IntermediateBundleFilename).err = "nil") =>
    /\ pubi.bundle = [i \in 1..Len(PemContent(c.IntermediateBundleFilename)) |->
                        CertOf(PemContent(c.IntermediateBundleFilename)[i]).raw]
    /\ pubi.bundles = {}

(* -------------------------------- C5 ---------------------------------- *)
\* C5: with an absent or empty chain list and no legacy bundle file, main
\* does not get past the check of the chain source other than by exiting
\* with status 1; the publisher is not built and the server never serves.
C5_NoSourceFails ==
  (ChainsAbsentOrEmpty /\ c.IntermediateBundleFilename = "") =>
    /\ pc \in {"flags", "readConfig", "stats", "check", "exited"}
    /\ (pc = "exited" => exitCode = 1)
    /\ ~pubi.built
    /\ srv = "none"

(* -------------------------------- C6 ---------------------------------- *)
\* C6: while a request accepted before the termination signal is in flight,
\* the graceful stop is not complete, the listener is not closed and the
\* process has not exited.
C6_NoInterrupt ==
  (Signalled /\ pre > 0) => (srv # "stopped" /\ lis # "closed" /\ Running)

\* C6 as amended: while such a request is in flight the graceful stop is not
\* complete; the listener is closed and the process exits only when Serve
\* itself failed, with exit status 1.
C6_NoInterruptByStop ==
  (Signalled /\ pre > 0) =>
    /\ srv # "stopped"
    /\ (lis = "closed" \/ ~Running) =>
         (srv = "failed" /\ exitCode = 1 /\ exitMsg = "Publisher gRPC service failed")

C6_Witness == sig = "stopWait" /\ pre > 0 /\ Running

(* -------------------------------- C7 ---------------------------------- *)
\* C7: main has exited only after a startup failure or after the graceful
\* stop of the server was complete.
C7_MainBlocksInServe ==
  pc = "exited" => (srv = "stopped" \/ (srv = "none" /\ exitMsg \in StartupFailures))

\* C7 as amended: main has exited only after a startup failure, after the
\* stop of the server was complete (status 0), or after Serve failed
\* (status 1).
C7_MainBlocksUnlessServeFails ==
  pc = "exited" =>
    \/ srv = "stopped" /\ exitCode = 0
    \/ srv = "none" /\ exitMsg \in StartupFailures /\ exitCode = 1
    \/ srv = "failed" /\ exitMsg = "Publisher gRPC service failed" /\ exitCode = 1

C7_Witness == pc = "exited" /\ srv = "stopped" /\ exitCode = 0 /\ accepted > 0

(* -------------------------------- C8 ---------------------------------- *)
\* C8: when all N chain definitions load and have K distinct issuers, the
\* mapping after resolution has exactly K entries, one for each of these
\* issuers.
C8_OneEntryPerIssuer ==
  ((pc = "tls" \/ pubi.built) /\ UseChains(c) /\ AllLoad) =>
    /\ Cardinality(bundles) = Cardinality(Issuers)
    /\ Keys(bundles) = Issuers
    /\ (pubi.built => pubi.bundles = bundles)

C8_Witness ==
  /\ pubi.built /\ UseChains(c)
  /\ Len(c.Chains.v) = 2
  /\ Cardinality(Issuers) = 1
  /\ BundleAt(1) # BundleAt(2)

(* -------------------------------- C9 ---------------------------------- *)
\* C9: when chain definitions are present the legacy bundle file is never
\* loaded, the publisher gets an empty legacy bundle and a mapping whose
\* entries all come from the chain definitions, whatever the legacy file
\* name is.
C9_ChainsTakePrecedence ==
  ~c.Chains.nil =>
    /\ ~legacyLoaded
    /\ bundle = <<>>
    /\ pubi.built =>
         /\ pubi.bundle = <<>>
         /\ Keys(pubi.bundles) = Issuers
         /\ \A p \in pubi.bundles :
              \E i \in 1..Len(c.Chains.v) : p = <<IssuerAt(i), BundleAt(i)>>

C9_Witness ==
  /\ pubi.built /\ ~c.Chains.nil
  /\ Len(c.Chains.v) > 0
  /\ c.IntermediateBundleFilename = "L1"

(* -------------------------------- C10 --------------------------------- *)
\* C10: when a chain definition fails to load, at whatever position, the
\* process exits with status 1, the publisher is never built and no request
\* is ever accepted.
C10_AllOrNothing ==
  /\ (UseChains(c) /\ ~AllLoad) =>
       (~pubi.built /\ srv = "none" /\ accepted = 0
          /\ pc \in {"stats", "check", "resolve", "exited"}
          /\ (pc = "exited" => exitCode = 1))
  /\ exitMsg = "Failed to load chain" => (exitCode = 1 /\ ~pubi.built /\ ~AllLoad)

C10_Witness ==
  /\ exitMsg = "Failed to load chain"
  /\ bundles # {}
  /\ idx > 1

(* -------------------------------- C11 --------------------------------- *)
\* C11: after any startup failure the process has exited with status 1,
\* the server was never created or served, nothing is registered and no
\* request was accepted; a legacy bundle that does not load stops main in
\* the resolution step.
C11_StartupFailureIsFatal ==
  /\ exitMsg \in StartupFailures =>
       /\ pc = "exited" /\ exitCode = 1
       /\ srv = "none" /\ lis = "none"
       /\ registered = {} /\ hs = "none" /\ sig = "none"
       /\ accepted = 0 /\ serveErr = "none"
  /\ (c.Chains.nil /\ LoadCertBundle(c.IntermediateBundleFilename).err # "nil") =>
       /\ pc \in {"flags", "readConfig", "stats", "check", "resolve", "exited"}
       /\ (pc = "exited" => exitCode = 1)
       /\ srv = "none" /\ registered = {}

C11_Witness ==
  /\ exitMsg = "Unable to setup Publisher gRPC server"
  /\ pubi.built
  /\ exitCode = 1

(* -------------------------------- C12 --------------------------------- *)
\* C12: when Serve returned nil or an error that only says the server was
\* stopped or its listener closed, the process reports nothing and exits
\* with status 0; when it returned any other error, the process reports it
\* and exits with status 1.
C12_ShutdownErrorsAreBenign ==
  serveErr # "none" =>
    /\ pc = "exited"
    /\ serveErr \in {"nil", "ErrServerStopped", "use of closed network connection"} =>
         (exitCode = 0 /\ exitMsg = "")
    /\ serveErr \notin {"nil", "ErrServerStopped", "use of closed network connection"} =>
         (exitCode = 1 /\ exitMsg = "Publisher gRPC service failed")

C12_Witness ==
  /\ serveErr = "use of closed network connection"
  /\ srv = "stopped"
  /\ exitCode = 0

(* -------------------------------- C13 --------------------------------- *)
\* C13: every entry of the mapping handed to the publisher is keyed by the
\* subject identity of the first certificate of a chain definition and holds
\* exactly the raw certificates after it, in file order; every definition's
\* issuer has an entry; the single chain [A1, B1] gives [derB1] under the
\* identity of A1.
C13_BundleIsRestOfChain ==
  (pubi.built /\ UseChains(c)) =>
    /\ \A p \in pubi.bundles :
         \E i \in 1..Len(c.Chains.v) :
           /\ p[1] = CertOf(c.Chains.v[i][1]).subject
           /\ Len(p[2]) = Len(c.Chains.v[i]) - 1
           /\ \A k \in 1..Len(p[2]) : p[2][k] = CertOf(c.Chains.v[i][k + 1]).raw
    /\ \A i \in 1..Len(c.Chains.v) :
         \E p \in pubi.bundles : p[1] = CertOf(c.Chains.v[i][1]).subject
    /\ c.Chains.v = <<<<"A1", "B1">>>> => pubi.bundles = {<<"A", <<"derB1">>>>}

C13_Witness ==
  /\ pubi.built
  /\ c.Chains.v = <<<<"A1", "B1">>>>
  /\ pubi.bundles = {<<"A", <<"derB1">>>>}

(* -------------------------------- C19 --------------------------------- *)
\* C19: the legacy bundle and the mapping handed to the publisher are never
\* both non-empty.
C19_NotBothSources ==
  /\ pubi.built => (pubi.bundle = <<>> \/ pubi.bundles = {})
  /\ bundle = <<>> \/ bundles = {}

C19_Witness ==
  /\ pubi.built
  /\ pubi.bundles # {}
  /\ pubi.bundle = <<>>
  /\ c.IntermediateBundleFilename = "L1"

C17_BundlesImmutable ==
  [][pubi.built => (pubi' = pubi /\ bundle' = bundle /\ bundles' = bundles)]_vars

C17_Witness ==
  /\ pubi.built /\ pubi.bundle # <<>>
  /\ accepted > 0
  /\ srv = "stopped"

(* -------------------------------- C20 --------------------------------- *)
\* C20: the health server reports SERVING from its registration until the
\* shutdown callback runs, leaves SERVING only in a step of the callback,
\* and never reports SERVING again afterwards.
C20_HealthServingUntilShutdown ==
  [][/\ (hs = "none" /\ hs' # "none") => hs' = "SERVING"
     /\ (hs = "SERVING" /\ hs' # "SERVING") => (hs' = "NOT_SERVING" /\ sig = "callback")
     /\ hs = "NOT_SERVING" => hs' = "NOT_SERVING"
     /\ ("Health" \in registered' /\ sig' \in {"none", "waiting"}) => hs' = "SERVING"
    ]_vars

C20_Witness == hs = "NOT_SERVING" /\ srv = "serving" /\ Running

C18_EarlySignalExitsCleanly ==
  /\ (pc = "serve" /\ srv = "stopped") ~> (pc = "exited" /\ exitCode = 0 /\ exitMsg = "")
  /\ [](serveErr = "ErrServerStopped" => (pc = "exited" /\ exitCode = 0 /\ exitMsg = ""))

C18_Witness ==
  /\ serveErr = "ErrServerStopped"
  /\ pc = "exited" /\ exitCode = 0
  /\ accepted = 0
====
